---- MODULE Spec2Model ----
(***************************************************************************)
(* A model of doppelganger/listbalancer.py: the hierarchical entropy       *)
(* balancer balance_multi_cvx (retry loop with importance-weight backoff,  *)
(* zero-marginal removal and re-insertion, fallback to the rescaled prior),*)
(* the Newton-Raphson balancer balance_newton and the discretizer          *)
(* discretize_multi_weights.                                               *)
(*                                                                         *)
(* Numbers.  balance_multi_cvx and discretize_multi_weights are modelled   *)
(* in exact rational arithmetic: a number is a pair <<n, d>> with d > 0    *)
(* in lowest terms.  The importance weights mu of balance_multi_cvx are    *)
(* kept on a grid of 1/MuDenom so that non-integral values occur.          *)
(* balance_newton is modelled in a decimal floating point with NaN and     *)
(* infinities (see below).                                                 *)
(*                                                                         *)
(* The convex solver (cvxpy) is outside the repository: a solver call is   *)
(* a nondeterministic choice among its possible outcomes.                  *)
(***************************************************************************)
EXTENDS Integers, Sequences, FiniteSets, TLC

(***************************************************************************)
(* Exact rational arithmetic                                               *)
(***************************************************************************)
RECURSIVE GCD(_, _)
GCD(a, b) ==
    IF b = 0 THEN a ELSE GCD(b, a % b)

Abs(n) ==
    IF n < 0 THEN -n ELSE n

Rat(n, d) ==
    LET s == IF d < 0 THEN -1 ELSE 1
        g == GCD(Abs(n), Abs(d))
    IN  <<(s * n) \div g, (s * d) \div g>>

RInt(n) ==
    <<n, 1>>

RAdd(a, b) ==
    Rat(a[1] * b[2] + b[1] * a[2], a[2] * b[2])

RSub(a, b) ==
    Rat(a[1] * b[2] - b[1] * a[2], a[2] * b[2])

RMul(a, b) ==
    Rat(a[1] * b[1], a[2] * b[2])

RLt(a, b) ==
    a[1] * b[2] < b[1] * a[2]

RLe(a, b) ==
    a[1] * b[2] <= b[1] * a[2]

RECURSIVE SumSeq(_)
SumSeq(s) ==
    IF s = <<>> THEN 0 ELSE Head(s) + SumSeq(Tail(s))

RECURSIVE RSumSeq(_)
RSumSeq(s) ==
    IF s = <<>> THEN RInt(0) ELSE RAdd(Head(s), RSumSeq(Tail(s)))

(***************************************************************************)
(* Floating point for balance_newton.  The iteration feeds each sweep's    *)
(* results into the next, so the model rounds after every operation as the *)
(* program's floats do: a number is <<m, e, t>>.  With t = 0 it is the     *)
(* finite value m * 10^e, where m = 0 (and e = 0) or MantMin <= |m| <      *)
(* MantMax (four significant decimal digits, rounded toward zero); t = 1   *)
(* is +inf, t = 2 is -inf and t = 3 is NaN, with the IEEE 754 rules numpy  *)
(* follows (x/0 = +-inf, 0/0 = inf - inf = 0 * inf = NaN, every comparison *)
(* with NaN is false).  Zero carries no sign.                              *)
(***************************************************************************)
MantMin ==
    10^3

MantMax ==
    10 * MantMin

\* digits kept by a division, and beyond which an addend is negligible
Guard ==
    10^5

FZero ==
    <<0, 0, 0>>

FInf ==
    <<0, 0, 1>>

FNegInf ==
    <<0, 0, 2>>

FNaN ==
    <<0, 0, 3>>

IsNaN(a) ==
    a[3] = 3

IsFinite(a) ==
    a[3] = 0

\* -1, 0 or 1; not used on NaN
FSign(a) ==
    IF a[3] = 1 THEN 1
    ELSE IF a[3] = 2 THEN -1
    ELSE IF a[1] > 0 THEN 1
    ELSE IF a[1] < 0 THEN -1
    ELSE 0

FSigned(sign) ==
    IF sign < 0 THEN FNegInf ELSE FInf

\* integer division rounding toward zero, d > 0
TruncDiv(n, d) ==
    IF n >= 0 THEN n \div d ELSE -((-n) \div d)

\* the number of decimal digits of n, 0 < n < 2^31
Digits(n) ==
    IF n < 10^5
    THEN (IF n < 10 THEN 1 ELSE IF n < 10^2 THEN 2 ELSE IF n < 10^3 THEN 3
          ELSE IF n < 10^4 THEN 4 ELSE 5)
    ELSE (IF n < 10^6 THEN 6 ELSE IF n < 10^7 THEN 7 ELSE IF n < 10^8 THEN 8
          ELSE IF n < 10^9 THEN 9 ELSE 10)

\* the float of m * 10^e: the mantissa cut to four digits
FNorm(m, e) ==
    IF m = 0 THEN FZero
    ELSE IF Abs(m) >= MantMax
    THEN <<TruncDiv(m, 10^(Digits(Abs(m)) - 4)), e + Digits(Abs(m)) - 4, 0>>
    ELSE IF Abs(m) < MantMin
    THEN <<m * 10^(4 - Digits(Abs(m))), e - (4 - Digits(Abs(m))), 0>>
    ELSE <<m, e, 0>>

FInt(n) ==
    FNorm(n, 0)

FNeg(a) ==
    IF a[3] = 0 THEN <<-a[1], a[2], 0>>
    ELSE IF a[3] = 1 THEN FNegInf
    ELSE IF a[3] = 2 THEN FInf
    ELSE FNaN

\* the sum of two finite numbers, a[2] >= b[2]
FAddAligned(a, b) ==
    IF a[2] - b[2] > 5 THEN a
    ELSE FNorm(a[1] * 10^(a[2] - b[2]) + b[1], b[2])

FAdd(a, b) ==
    IF IsNaN(a) \/ IsNaN(b) THEN FNaN
    ELSE IF ~IsFinite(a) THEN (IF ~IsFinite(b) /\ b # a THEN FNaN ELSE a)
    ELSE IF ~IsFinite(b) THEN b
    ELSE IF a[1] = 0 THEN b
    ELSE IF b[1] = 0 THEN a
    ELSE IF a[2] >= b[2] THEN FAddAligned(a, b)
    ELSE FAddAligned(b, a)

FSub(a, b) ==
    FAdd(a, FNeg(b))

FMul(a, b) ==
    IF IsNaN(a) \/ IsNaN(b) THEN FNaN
    ELSE IF ~IsFinite(a) \/ ~IsFinite(b)
    THEN (IF FSign(a) * FSign(b) = 0 THEN FNaN
          ELSE FSigned(FSign(a) * FSign(b)))
    ELSE FNorm(a[1] * b[1], a[2] + b[2])

FDiv(a, b) ==
    IF IsNaN(a) \/ IsNaN(b) THEN FNaN
    ELSE IF ~IsFinite(a)
    THEN (IF ~IsFinite(b) THEN FNaN
          ELSE FSigned(FSign(a) * (IF FSign(b) < 0 THEN -1 ELSE 1)))
    ELSE IF ~IsFinite(b) THEN FZero
    ELSE IF b[1] = 0
    THEN (IF a[1] = 0 THEN FNaN ELSE FSigned(FSign(a)))
    ELSE FNorm(FSign(b) * TruncDiv(a[1] * Guard, Abs(b[1])),
               a[2] - b[2] - 5)

\* a < b; false when either is NaN
FLt(a, b) ==
    IF IsNaN(a) \/ IsNaN(b) THEN FALSE
    ELSE IF a = b THEN FALSE
    ELSE IF ~IsFinite(a) THEN a[3] = 2
    ELSE IF ~IsFinite(b) THEN b[3] = 1
    ELSE FSub(a, b)[1] < 0

\* a <= b; false when either is NaN
FLe(a, b) ==
    IF IsNaN(a) \/ IsNaN(b) THEN FALSE ELSE (a = b \/ FLt(a, b))

FAbs(a) ==
    IF FSign(a) < 0 /\ ~IsNaN(a) THEN FNeg(a) ELSE a

\* a ** n for a whole n >= 0
RECURSIVE FPowInt(_, _)
FPowInt(a, n) ==
    IF n = 0 THEN FInt(1) ELSE FMul(a, FPowInt(a, n - 1))

\* the integer square root of n, lo * lo <= n < hi * hi
RECURSIVE ISqrtIn(_, _, _)
ISqrtIn(n, lo, hi) ==
    IF hi - lo <= 1 THEN lo
    ELSE LET mid == (lo + hi) \div 2
         IN  IF mid * mid <= n THEN ISqrtIn(n, mid, hi)
             ELSE ISqrtIn(n, lo, mid)

\* a ** 0.5: NaN for a negative base
FSqrt(a) ==
    IF IsNaN(a) THEN FNaN
    ELSE IF ~IsFinite(a) THEN FInf
    ELSE IF a[1] < 0 THEN FNaN
    ELSE IF a[1] = 0 THEN FZero
    ELSE IF a[2] % 2 = 0
    THEN FNorm(ISqrtIn(a[1] * 10^4, 0, 10^4), (a[2] - 4) \div 2)
    ELSE FNorm(ISqrtIn(a[1] * 10^5, 0, 4 * 10^4), (a[2] - 5) \div 2)

\* a ** (h / 2) for a whole h >= 0: the base raised to an exponent that is a
\* whole number of halves
FPowHalves(a, h) ==
    IF h % 2 = 0 THEN FPowInt(a, h \div 2)
    ELSE FMul(FPowInt(a, h \div 2), FSqrt(a))

\* the float of h / 2
FromHalves(h) ==
    FDiv(FInt(h), FInt(2))

\* the whole number 2 * a of a finite a >= 0 that is a whole number of halves
ToHalves(a) ==
    LET d == FMul(a, FInt(2))
    IN  IF d[2] >= 0 THEN d[1] * 10^d[2] ELSE d[1] \div 10^(-d[2])

RECURSIVE FSumSeq(_)
FSumSeq(s) ==
    IF s = <<>> THEN FZero ELSE FAdd(Head(s), FSumSeq(Tail(s)))

(***************************************************************************)
(* Bounds of the model                                                     *)
(***************************************************************************)
\* tracts of the marginal matrix A handed to balance_multi_cvx
NTracts == 3
\* largest sample count and control count of hh_table (balance_multi_cvx)
MaxDim == 2
\* largest marginal entry and largest prior weight (balance_multi_cvx)
MaxMarginal == 1
MaxWeight == 2
\* mu is kept in units of 1/MuDenom; MaxMu is the largest initial mu
MuDenom == 2
MaxMu == 12
\* balance_newton: MAX_ITERATIONS is 10000 in the source (line 13); the
\* model runs the same loop with a small cap
MAX_ITERATIONS == 3

VARIABLES
    \* ---- balance_multi_cvx ----
    m_pc,            \* position in balance_multi_cvx
    hh_shape,        \* hh_table.shape = <<n_samples, n_controls>>
    A_in, w_in, mu_in,   \* the caller's arguments A, w, mu
    m_A, m_w, m_mu,  \* the locals A, w, mu (rebound by the function)
    zero_marginals,  \* set of 0-based tract indices
    solved,
    importance_weights_relaxed,
    x_value, z_value,    \* x.value, z.value: [has, val]
    weights_out, zs_out, \* [has, val]
    exc,             \* exception leaving the call, "none" if none
    \* ---- balance_newton ----
    n_pc,            \* position in balance_newton
    hh_table, A, w, mu,  \* the arguments
    alpha, z,        \* per control
    cur_w, prev_w,   \* per sample
    it,              \* index of the current sweep (range(MAX_ITERATIONS))
    marginal_ind,    \* control being processed (1-based)
    weight_diff,
    \* ---- discretize_multi_weights ----
    d_pc,            \* position in discretize_multi_weights
    d_hh_table, x,   \* the arguments hh_table and x
    x_int, A_residuals, x_residuals,
    y_value,         \* y.value: [has, val]
    Y                \* the returned array: [has, val]

multiVars ==
    <<m_pc, hh_shape, A_in, w_in, mu_in, m_A, m_w, m_mu, zero_marginals,
      solved, importance_weights_relaxed, x_value, z_value, weights_out,
      zs_out, exc>>

newtonVars ==
    <<n_pc, hh_table, A, w, mu, alpha, z, cur_w, prev_w, it, marginal_ind,
      weight_diff>>

discVars ==
    <<d_pc, d_hh_table, x, x_int, A_residuals, x_residuals, y_value, Y>>

vars ==
    <<multiVars, newtonVars, discVars>>

(***************************************************************************)
(* numpy helpers used by balance_multi_cvx                                 *)
(***************************************************************************)
None ==
    [has |-> FALSE, val |-> <<>>]

Some(v) ==
    [has |-> TRUE, val |-> v]

\* A.any(axis=1) for one row
RowAny(row) ==
    \E c \in 1..Len(row) : row[c] # 0

\* np.where(~A.any(axis=1))[0]: the 0-based indices of the all-zero rows
ZeroMarginals(M) ==
    {t - 1 : t \in {u \in 1..Len(M) : ~RowAny(M[u])}}

\* the 0-based indices 0..n-1 that are not in Z, ascending
RECURSIVE KeptFrom(_, _, _)
KeptFrom(i, n, Z) ==
    IF i >= n THEN <<>>
    ELSE IF i \in Z THEN KeptFrom(i + 1, n, Z)
    ELSE <<i>> \o KeptFrom(i + 1, n, Z)

Kept(n, Z) ==
    KeptFrom(0, n, Z)

\* np.delete(s, Z, axis) along the axis that s enumerates
NpDelete(s, Z) ==
    LET keep == Kept(Len(s), Z)
    IN  [r \in 1..Len(keep) |-> s[keep[r] + 1]]

\* np.delete(M, Z, axis=1) on a matrix given as a sequence of rows
NpDeleteCols(M, Z) ==
    [c \in 1..Len(M) |-> NpDelete(M[c], Z)]

\* np.insert raises IndexError when an index exceeds the length of the
\* array it is given
NpInsertInRange(n, Z) ==
    \A i \in Z : i <= n

\* np.insert(s, Z, v, axis): every index of Z is a position of the array s
\* that is passed in; the j-th smallest index i lands at position i + j of
\* the result and the elements of s fill the other positions in order.
NpInsertPositions(Z) ==
    {i + Cardinality({j \in Z : j < i}) : i \in Z}

NpInsert(s, Z, v) ==
    LET P == NpInsertPositions(Z)
    IN  [p \in 1..(Len(s) + Cardinality(Z)) |->
            IF (p - 1) \in P
            THEN v
            ELSE s[p - Cardinality({q \in P : q < p - 1})]]

\* np.insert(M, Z, col, axis=1) on a matrix given as a sequence of rows
NpInsertCols(M, Z, v) ==
    [c \in 1..Len(M) |-> NpInsert(M[c], Z, v)]

\* assigning zero_weights, of shape (1, n_controls), into rows of
\* n_samples columns broadcasts only when n_controls is 1 or n_samples
Broadcasts(n_controls, n_samples) ==
    n_controls = 1 \/ n_controls = n_samples

ZeroRow(n) ==
    [i \in 1..n |-> RInt(0)]

\* np.any(x.value): False for None and for an all-zero matrix
NpAny(xv) ==
    /\ xv.has
    /\ \E r \in 1..Len(xv.val) : \E i \in 1..Len(xv.val[r]) :
          xv.val[r][i] # RInt(0)

\* wa = np.sum(A, axis=1) / np.sum(A);  w = w * wa
Rescale(wm, Am) ==
    LET total == SumSeq([r \in 1..Len(Am) |-> SumSeq(Am[r])])
    IN  [r \in 1..Len(wm) |->
            [i \in 1..Len(wm[r]) |->
                RMul(RInt(wm[r][i]), Rat(SumSeq(Am[r]), total))]]

\* np.all(mu == 1)
MuAllOne(m) ==
    \A c \in 1..Len(m) : \A t \in 1..Len(m[c]) : m[c][t] = MuDenom

\* np.where(mu > 10, mu - 10, 1)
Backoff(m) ==
    [c \in 1..Len(m) |->
        [t \in 1..Len(m[c]) |->
            IF m[c][t] > 10 * MuDenom THEN m[c][t] - 10 * MuDenom ELSE MuDenom]]

\* balance_newton is not running
NewtonIdle ==
    /\ n_pc = "idle"
    /\ hh_table = <<>> /\ A = <<>> /\ w = <<>> /\ mu = <<>>
    /\ alpha = <<>> /\ z = <<>> /\ cur_w = <<>> /\ prev_w = <<>>
    /\ it = 0 /\ marginal_ind = 0 /\ weight_diff = FZero

\* discretize_multi_weights is not running
DiscIdle ==
    /\ d_pc = "idle"
    /\ d_hh_table = <<>> /\ x = <<>>
    /\ x_int = <<>> /\ A_residuals = <<>> /\ x_residuals = <<>>
    /\ y_value = None /\ Y = None

\* balance_multi_cvx is not running
MultiIdle ==
    /\ m_pc = "idle"
    /\ hh_shape = <<0, 0>>
    /\ A_in = <<>> /\ w_in = <<>> /\ mu_in = <<>>
    /\ m_A = <<>> /\ m_w = <<>> /\ m_mu = <<>>
    /\ zero_marginals = {}
    /\ solved = FALSE
    /\ importance_weights_relaxed = FALSE
    /\ x_value = None /\ z_value = None
    /\ weights_out = None /\ zs_out = None
    /\ exc = "none"

(***************************************************************************)
(* balance_multi_cvx                                                       *)
(***************************************************************************)
n_samples ==
    hh_shape[1]

n_controls ==
    hh_shape[2]

\* What one prob.solve() call can leave in x.value and z.value when it does
\* not raise: nothing (status infeasible), an all-zero x, or a solution.
\* The solution's row for a solved tract carries that tract's original
\* 0-based index so that rows can be told apart.
SolverValues(keep) ==
    { [x |-> None, z |-> None],
      [x |-> Some([r \in 1..Len(keep) |-> ZeroRow(n_samples)]),
       z |-> Some([c \in 1..n_controls |->
                     [r \in 1..Len(keep) |-> RInt(100 + 10 * keep[r] + c)]])],
      [x |-> Some([r \in 1..Len(keep) |->
                     [i \in 1..n_samples |-> RInt(10 * (keep[r] + 1) + i)]]),
       z |-> Some([c \in 1..n_controls |->
                     [r \in 1..Len(keep) |-> RInt(100 + 10 * keep[r] + c)]])] }

\* balance_multi_cvx does not mutate its arguments; the other routines
\* share no state with it
UnchangedInputs ==
    UNCHANGED <<hh_shape, A_in, w_in, mu_in, newtonVars, discVars>>

\* lines 87-119: remove the zero-marginal tracts, rescale the prior
Preprocess ==
    /\ m_pc = "start"
    /\ LET Z == ZeroMarginals(A_in)
           Ad == IF Z # {} THEN NpDelete(A_in, Z) ELSE A_in
           wd == IF Z # {} THEN NpDelete(w_in, Z) ELSE w_in
           mud == IF Z # {} THEN NpDeleteCols(mu_in, Z) ELSE mu_in
       IN  /\ zero_marginals' = Z
           /\ m_A' = Ad
           /\ m_w' = Rescale(wd, Ad)
           /\ m_mu' = mud
    /\ solved' = FALSE
    /\ importance_weights_relaxed' = FALSE
    /\ m_pc' = "solve"
    /\ UNCHANGED <<x_value, z_value, weights_out, zs_out, exc>>
    /\ UnchangedInputs

\* line 146: prob.solve() before the try statement returns
SolveReturns ==
    /\ m_pc = "solve"
    /\ \E v \in SolverValues(Kept(Len(A_in), zero_marginals)) :
          /\ x_value' = v.x
          /\ z_value' = v.z
    /\ m_pc' = "try"
    /\ UNCHANGED <<m_A, m_w, m_mu, zero_marginals, solved,
                   importance_weights_relaxed, weights_out, zs_out, exc>>
    /\ UnchangedInputs

\* line 146: prob.solve() before the try statement raises cvx.SolverError;
\* no handler encloses it, the exception leaves balance_multi_cvx
SolveRaises ==
    /\ m_pc = "solve"
    /\ m_pc' = "raised"
    /\ exc' = "SolverError"
    /\ UNCHANGED <<m_A, m_w, m_mu, zero_marginals, solved,
                   importance_weights_relaxed, x_value, z_value, weights_out,
                   zs_out>>
    /\ UnchangedInputs

\* lines 148-150: prob.solve() inside the try statement returns
TrySolveReturns ==
    /\ m_pc = "try"
    /\ \E v \in SolverValues(Kept(Len(A_in), zero_marginals)) :
          /\ x_value' = v.x
          /\ z_value' = v.z
    /\ solved' = TRUE
    /\ m_pc' = "post"
    /\ UNCHANGED <<m_A, m_w, m_mu, zero_marginals,
                   importance_weights_relaxed, weights_out, zs_out, exc>>
    /\ UnchangedInputs

\* lines 152-157: prob.solve() inside the try statement raises
\* cvx.SolverError: break when mu is all 1, else relax mu and loop
TrySolveRaises ==
    /\ m_pc = "try"
    /\ IF MuAllOne(m_mu)
       THEN /\ m_pc' = "post"
            /\ UNCHANGED <<m_mu, importance_weights_relaxed>>
       ELSE /\ m_mu' = Backoff(m_mu)
            /\ importance_weights_relaxed' = TRUE
            /\ m_pc' = "solve"
    /\ UNCHANGED <<m_A, m_w, zero_marginals, solved, x_value, z_value,
                   weights_out, zs_out, exc>>
    /\ UnchangedInputs

\* lines 159-177: choose the weights, re-insert the zero-marginal tracts
PostProcess ==
    /\ m_pc = "post"
    /\ LET chosen == IF NpAny(x_value) THEN x_value.val ELSE m_w
           Z == zero_marginals
       IN  IF Z = {}
           THEN /\ weights_out' = Some(chosen)
                /\ zs_out' = z_value
                /\ m_pc' = "returned"
                /\ exc' = exc
           ELSE IF ~NpInsertInRange(Len(chosen), Z)
           THEN /\ m_pc' = "raised"
                /\ exc' = "IndexError"
                /\ UNCHANGED <<weights_out, zs_out>>
           ELSE IF ~Broadcasts(n_controls, n_samples)
           THEN /\ m_pc' = "raised"
                /\ exc' = "ValueError"
                /\ UNCHANGED <<weights_out, zs_out>>
           ELSE IF ~z_value.has
           \* np.insert(None, ..., axis=1): the outcome depends on the
           \* numpy version (an error, or a value that is no matrix)
           THEN \/ /\ m_pc' = "raised"
                   /\ exc' = "AxisError"
                   /\ UNCHANGED <<weights_out, zs_out>>
                \/ /\ m_pc' = "returned"
                   /\ weights_out' = Some(NpInsert(chosen, Z, ZeroRow(n_samples)))
                   /\ zs_out' = None
                   /\ exc' = exc
           ELSE /\ weights_out' = Some(NpInsert(chosen, Z, ZeroRow(n_samples)))
                /\ zs_out' = Some(NpInsertCols(z_value.val, Z, RInt(0)))
                /\ m_pc' = "returned"
                /\ exc' = exc
    /\ UNCHANGED <<m_A, m_w, m_mu, zero_marginals, solved,
                   importance_weights_relaxed, x_value, z_value>>
    /\ UnchangedInputs

MatrixOf(rows, cols, S) ==
    [1..rows -> [1..cols -> S]]

\* mu with every entry equal to v
UniformMu(rows, cols, v) ==
    [c \in 1..rows |-> [t \in 1..cols |-> v]]

MultiStart ==
    /\ m_pc = "start"
    /\ m_A = <<>> /\ m_w = <<>> /\ m_mu = <<>>
    /\ zero_marginals = {}
    /\ solved = FALSE
    /\ importance_weights_relaxed = FALSE
    /\ x_value = None /\ z_value = None
    /\ weights_out = None /\ zs_out = None
    /\ exc = "none"

\* Arguments of a call: A has NTracts rows of which at least one is not
\* all zero, w is strictly positive.  Either mu is uniform and A, w and the
\* shape of hh_table vary, or A and w are fixed and the entries of mu vary
\* independently over the grid 1, 1 + 1/MuDenom, ..., MaxMu.
InitMulti ==
    /\ \/ /\ hh_shape \in (1..MaxDim) \X (1..MaxDim)
          /\ A_in \in MatrixOf(NTracts, hh_shape[2], 0..MaxMarginal)
          /\ ZeroMarginals(A_in) # 0..(NTracts - 1)
          /\ w_in \in MatrixOf(NTracts, hh_shape[1], 1..MaxWeight)
          /\ \E v \in {MuDenom, 10 * MuDenom + 1, MaxMu * MuDenom} :
                mu_in = UniformMu(hh_shape[2], NTracts, v)
       \/ /\ hh_shape = <<1, 1>>
          /\ A_in = <<<<1>>, <<1>>>>
          /\ w_in = <<<<1>>, <<1>>>>
          /\ mu_in \in MatrixOf(1, 2, MuDenom..(MaxMu * MuDenom))
    /\ MultiStart
    /\ NewtonIdle
    /\ DiscIdle

NextMulti ==
    \/ Preprocess
    \/ SolveReturns
    \/ SolveRaises
    \/ TrySolveReturns
    \/ TrySolveRaises
    \/ PostProcess

SpecMulti ==
    InitMulti /\ [][NextMulti]_vars

(***************************************************************************)
(* Claims about balance_multi_cvx                                          *)
(***************************************************************************)
\* the 0-based indices of the tracts of the caller's A that are solved
SolvedTracts ==
    Kept(Len(A_in), ZeroMarginals(A_in))

\* the prior of the caller's tract t (0-based) rescaled by
\* rowsum(A[t]) / sum(A)
RescaledPrior(t) ==
    LET total == SumSeq([r \in 1..Len(A_in) |-> SumSeq(A_in[r])])
    IN  [i \in 1..n_samples |->
            Rat(w_in[t + 1][i] * SumSeq(A_in[t + 1]), total)]

\* C1: a cvx.SolverError raised by any solver invocation of any attempt is
\* absorbed inside balance_multi_cvx: the call never ends by letting a
\* SolverError reach its caller.
C1_SolverErrorAbsorbed ==
    ~(m_pc = "raised" /\ exc = "SolverError")

\* C2: starting from a mu whose entries are all >= 1, every backoff step
\* leaves each entry of mu less than or equal to its previous value and
\* never below 1.
C2_BackoffMonotone ==
    [][(m_pc = "try" /\ m_pc' = "solve") =>
          \A c \in 1..Len(m_mu) : \A t \in 1..Len(m_mu[c]) :
              /\ m_mu'[c][t] <= m_mu[c][t]
              /\ m_mu'[c][t] >= MuDenom]_vars

\* C3: the retry loop ends either at an attempt on which the solver
\* succeeded or, the solver having failed on every attempt, after mu has
\* been backed off to the uniform value 1: whenever the loop has been left
\* without a success, mu is uniformly 1.
C3_LoopEndsSolvedOrAtFloor ==
    (m_pc \in {"post", "returned", "raised"} /\ ~solved) => MuAllOne(m_mu)

\* C4: the returned weight matrix has one row per tract of the caller's A;
\* the row of every zero-marginal tract is all zero and so are its entries
\* of z; every solved tract's row sits at that tract's original position.
C4_ZeroTractsReinserted ==
    m_pc = "returned" =>
        LET chosen == IF NpAny(x_value) THEN x_value.val ELSE m_w
        IN  /\ Len(weights_out.val) = Len(A_in)
            /\ \A t \in ZeroMarginals(A_in) :
                  /\ weights_out.val[t + 1] = ZeroRow(n_samples)
                  /\ zs_out.has =>
                        \A c \in 1..n_controls : zs_out.val[c][t + 1] = RInt(0)
            /\ \A r \in 1..Len(SolvedTracts) :
                  weights_out.val[SolvedTracts[r] + 1] = chosen[r]

\* C5: when the call returns and the solver produced no x with a non-zero
\* entry, the weights returned for every solved tract are that tract's
\* prior w rescaled by rowsum(A)/sum(A); when the solver produced a
\* non-zero x, the solver's row is returned for the tract.
C5_FallbackIsRescaledPrior ==
    m_pc = "returned" =>
        \A r \in 1..Len(SolvedTracts) :
            LET t == SolvedTracts[r]
            IN  /\ Len(weights_out.val) >= t + 1
                /\ weights_out.val[t + 1] =
                      IF NpAny(x_value) THEN x_value.val[r] ELSE RescaledPrior(t)

\* the choice of line 168 before the re-insertion: the rows handed to
\* np.insert are the solver's x, or the rescaled prior of the solved tracts
ChosenBeforeInsert ==
    m_pc = "post" =>
        \A r \in 1..Len(SolvedTracts) :
            (IF NpAny(x_value) THEN x_value.val ELSE m_w)[r] =
                IF NpAny(x_value) THEN x_value.val[r]
                ELSE RescaledPrior(SolvedTracts[r])

(***************************************************************************)
(* balance_newton                                                          *)
(*                                                                         *)
(* hh_table holds whole numbers of halves (hh_table[i][k] = 3 stands for   *)
(* the entry 1.5); A and w hold whole numbers; mu holds floats.            *)
(***************************************************************************)
Samples ==
    1..Len(hh_table)

Controls ==
    1..Len(A)

\* line 12: MAX_GAP = 0.0000001
MAX_GAP ==
    FDiv(FInt(1), FInt(10^7))

\* Python's max(a, b) and min(a, b): the first argument unless the second
\* is strictly greater (smaller)
PyMax(a, b) ==
    IF FLt(a, b) THEN b ELSE a

PyMin(a, b) ==
    IF FLt(b, a) THEN b ELSE a

\* lines 196-197
sample_weight_lower(i) ==
    FDiv(FInt(w[i]), FInt(5))

sample_weight_upper(i) ==
    FMul(FInt(w[i]), FInt(5))

\* line 214: data_col, the column of control k
DataCol(k) ==
    [i \in Samples |-> FromHalves(hh_table[i][k])]

\* line 216: x = np.dot(prev_w.T, data_col)
DotX(pw, k) ==
    FSumSeq([i \in Samples |-> FMul(pw[i], DataCol(k)[i])])

\* line 217: y = np.dot(prev_w.T, np.power(data_col, 2))
DotY(pw, k) ==
    FSumSeq([i \in Samples |->
                FMul(pw[i], FMul(DataCol(k)[i], DataCol(k)[i]))])

\* 1 / control_weight
InvControlWeight(k) ==
    FDiv(FInt(1), mu[k])

\* lines 219-231: the balancing factor of control k
BalancingFactor(pw, zk, k) ==
    LET xx == DotX(pw, k)
        yy == DotY(pw, k)
    IN  IF FLt(FZero, xx)
        THEN IF A[k] > 0
             THEN LET numer == FSub(xx, FMul(FInt(A[k]), zk))
                      denom == FAdd(yy, FMul(FMul(FInt(A[k]), zk),
                                             InvControlWeight(k)))
                  IN  FSub(FInt(1), FDiv(numer, denom))
             ELSE FDiv(FInt(1), FInt(100))
        ELSE FInt(1)

\* lines 239-244: clamp into [sample_weight_lower, sample_weight_upper]
Clamp(v, i) ==
    PyMin(PyMax(v, sample_weight_lower(i)), sample_weight_upper(i))

\* a variant of the update loop that compounds the corrections of a sweep:
\* it multiplies the current weight, not the weight of the previous sweep
UpdateWeightsCompounding(cw, pw, a, k) ==
    [i \in Samples |->
        IF hh_table[i][k] > 0
        THEN Clamp(FMul(cw[i], FPowHalves(a, hh_table[i][k])), i)
        ELSE cw[i]]

\* lines 234-244: the weights after the update loop of control k
UpdateWeights(cw, pw, a, k) ==
    [i \in Samples |->
        IF hh_table[i][k] > 0
        THEN Clamp(FMul(pw[i], FPowHalves(a, hh_table[i][k])), i)
        ELSE cw[i]]

\* a variant of line 247 that ignores the importance weight of the control
RelaxationFactorUnweighted(zk, a, k) ==
    FMul(zk, FDiv(FInt(1), a))

\* line 247: 1 / control_weight is a whole number of halves for every mu of
\* the model
RelaxationFactor(zk, a, k) ==
    FMul(zk, FPowHalves(FDiv(FInt(1), a), ToHalves(InvControlWeight(k))))

\* line 250
WeightDiff(cw, pw) ==
    FDiv(FSumSeq([i \in Samples |-> FAbs(FSub(cw[i], pw[i]))]),
         FInt(Len(cw)))

\* a variant of line 251 that never meets the gap
NeverConverged(d) ==
    FALSE

\* line 251
Converged(d) ==
    FLe(d, MAX_GAP)

UnchangedNewtonInputs ==
    UNCHANGED <<hh_table, A, w, mu, multiVars, discVars>>

\* lines 209-247: one pass of the loop over the controls
ControlStep ==
    /\ n_pc = "sweep"
    /\ \E k \in {marginal_ind} :
       \E a \in {BalancingFactor(prev_w, z[marginal_ind], marginal_ind)} :
           /\ alpha' = [alpha EXCEPT ![k] = a]
           /\ cur_w' = UpdateWeights(cur_w, prev_w, a, k)
           /\ z' = [z EXCEPT ![k] = RelaxationFactor(z[k], a, k)]
           /\ IF k < Len(A)
              THEN marginal_ind' = k + 1 /\ n_pc' = "sweep"
              ELSE marginal_ind' = k /\ n_pc' = "check"
    /\ UNCHANGED <<prev_w, it, weight_diff>>
    /\ UnchangedNewtonInputs

\* lines 250-252 and 256: the sweep met the gap, break and return
Break ==
    /\ n_pc = "check"
    /\ Converged(WeightDiff(cur_w, prev_w))
    /\ weight_diff' = WeightDiff(cur_w, prev_w)
    /\ n_pc' = "done"
    /\ UNCHANGED <<alpha, z, cur_w, prev_w, it, marginal_ind>>
    /\ UnchangedNewtonInputs

\* lines 250-254, 208 and 256: the sweep did not meet the gap; prev_w is
\* replaced and the next sweep starts, or range(MAX_ITERATIONS) is
\* exhausted and the function returns
NextSweep ==
    /\ n_pc = "check"
    /\ ~Converged(WeightDiff(cur_w, prev_w))
    /\ weight_diff' = WeightDiff(cur_w, prev_w)
    /\ prev_w' = cur_w
    /\ IF it + 1 < MAX_ITERATIONS
       THEN it' = it + 1 /\ marginal_ind' = 1 /\ n_pc' = "sweep"
       ELSE it' = it /\ marginal_ind' = marginal_ind /\ n_pc' = "done"
    /\ UNCHANGED <<alpha, z, cur_w>>
    /\ UnchangedNewtonInputs

\* the entries of hh_table, in halves: 0, 0.5 and 1
TableValues ==
    {0, 1, 2}

\* the targets of A
TargetValues ==
    {0, 1, 2}

\* the prior weights
WeightValues ==
    {1, 5}

\* the importance weights
MuValues ==
    {FInt(1), FInt(2)}

\* Arguments of a call: two samples and two controls, hh_table >= 0,
\* A >= 0, w strictly positive, mu strictly positive.
\* Lines 194-206 give the initial alpha, z, cur_w and prev_w.
InitNewton ==
    /\ hh_table \in MatrixOf(2, 2, TableValues)
    /\ A \in [1..2 -> TargetValues]
    /\ w \in [1..2 -> WeightValues]
    /\ mu \in [1..2 -> MuValues]
    /\ alpha = [k \in 1..2 |-> FInt(1)]
    /\ z = [k \in 1..2 |-> FInt(1)]
    /\ cur_w = [i \in 1..2 |-> FInt(w[i])]
    /\ prev_w = [i \in 1..2 |-> FInt(w[i])]
    /\ it = 0
    /\ marginal_ind = 1
    /\ weight_diff = FZero
    /\ n_pc = "sweep"
    /\ MultiIdle
    /\ DiscIdle

NextNewton ==
    \/ ControlStep
    \/ Break
    \/ NextSweep

SpecNewton ==
    InitNewton /\ [][NextNewton]_vars

(***************************************************************************)
(* Properties of balance_newton                                            *)
(***************************************************************************)
\* C6: after every control step of every sweep and in the returned vector,
\* each sample's weight lies within [w[i] / 5, 5 * w[i]], whatever value the
\* correction factor alpha takes.
C6_WeightsWithinBounds ==
    n_pc # "idle" =>
        \A i \in Samples :
            /\ FLe(sample_weight_lower(i), cur_w[i])
            /\ FLe(cur_w[i], sample_weight_upper(i))

\* the sweep that has just been completed met the gap
GapMet ==
    FLe(FDiv(FSumSeq([i \in Samples |-> FAbs(FSub(cur_w[i], prev_w[i]))]),
             FInt(Len(cur_w))),
        MAX_GAP)

\* C7: the sweep loop stops after the first full sweep whose mean absolute
\* weight change is <= MAX_GAP and otherwise after exactly MAX_ITERATIONS
\* sweeps: it never stops in the middle of a sweep, never goes on after a
\* sweep that met the gap, never stops before the cap after a sweep that
\* did not, never starts a sweep beyond the cap, and on both exits returns
\* the cur_w and z of the last sweep.  (it + 1 is the number of sweeps
\* started.)
C7_Termination ==
    [][ /\ (n_pc = "sweep" => n_pc' \in {"sweep", "check"})
        /\ (n_pc = "check" /\ GapMet =>
                n_pc' = "done" /\ it' = it /\ cur_w' = cur_w /\ z' = z)
        /\ (n_pc = "check" /\ ~GapMet /\ it + 1 < MAX_ITERATIONS =>
                n_pc' = "sweep" /\ it' = it + 1)
        /\ (n_pc = "check" /\ ~GapMet /\ it + 1 >= MAX_ITERATIONS =>
                /\ n_pc' = "done" /\ it + 1 = MAX_ITERATIONS
                /\ it' = it /\ cur_w' = cur_w /\ z' = z)
        /\ it' + 1 <= MAX_ITERATIONS
      ]_vars

\* a call that left the loop by the break, after its second sweep
C7_BrokeAfterSecondSweep ==
    /\ n_pc = "done"
    /\ it = 1
    /\ it + 1 < MAX_ITERATIONS
    /\ GapMet

\* C9: the step of control k, with x = prev_w . H[:,k] and
\* y = prev_w . H[:,k]^2: if x > 0 and A[k] > 0 then
\* alpha[k] = 1 - (x - A[k] z[k]) / (y + A[k] z[k] / mu[k]); if x > 0 and
\* A[k] = 0 then alpha[k] = 0.01; if x <= 0 then alpha[k] = 1 and the step
\* leaves z[k] and every weight unchanged.  In every case z[k] is then
\* multiplied by (1 / alpha[k]) ^ (1 / mu[k]) and no other entry of z changes.
C9_ControlStep ==
    [][ n_pc = "sweep" =>
          \A k \in {marginal_ind} :
          \A xx \in {FSumSeq([i \in Samples |->
                        FMul(prev_w[i], FromHalves(hh_table[i][k]))])} :
          \A yy \in {FSumSeq([i \in Samples |->
                        FMul(prev_w[i],
                             FPowInt(FromHalves(hh_table[i][k]), 2))])} :
          \A Az \in {FMul(FInt(A[k]), z[k])} :
              /\ (FLt(FZero, xx) /\ A[k] > 0 =>
                    alpha'[k] =
                        FSub(FInt(1),
                             FDiv(FSub(xx, Az), FAdd(yy, FDiv(Az, mu[k])))))
              /\ (FLt(FZero, xx) /\ A[k] = 0 =>
                    alpha'[k] = FDiv(FInt(1), FInt(100)))
              /\ (FLe(xx, FZero) =>
                    alpha'[k] = FInt(1) /\ z' = z /\ cur_w' = cur_w)
              /\ \A inv \in {FDiv(FInt(1), alpha'[k])} :
                    z'[k] = FMul(z[k],
                                 FPowHalves(inv, ToHalves(FDiv(FInt(1), mu[k]))))
              /\ \A j \in Controls \ {k} : z'[j] = z[j]
      ]_vars

\* a sweep is complete in which one control took the Newton step with
\* importance weight 2, one had a zero target and one had no household
C9_AllCasesTaken ==
    /\ n_pc = "check"
    /\ it = 1
    /\ \E k \in Controls :
          /\ A[k] > 0 /\ mu[k] = FInt(2)
          /\ IsFinite(alpha[k]) /\ alpha[k] # FInt(1)
          /\ z[k] # FInt(1)
    /\ \E k \in Controls :
          \/ alpha[k] = FDiv(FInt(1), FInt(100))
          \/ \A i \in Samples : hh_table[i][k] = 0

\* the controls with a positive entry for sample s
PositiveControls(s) ==
    {k \in Controls : hh_table[s][k] > 0}

\* the largest element of a non-empty set of numbers
Last(S) ==
    CHOOSE k \in S : \A j \in S : j <= k

\* the weights at the end of a sweep: each sample carries the clamped
\* update of its last positive control, computed from prev_w
EndOfSweep ==
    \A s \in Samples :
        IF PositiveControls(s) = {}
        THEN cur_w[s] = prev_w[s]
        ELSE \A k \in {Last(PositiveControls(s))} :
             \A v \in {FMul(prev_w[s],
                            FPowHalves(alpha[k], hh_table[s][k]))} :
             \A lo \in {FDiv(FInt(w[s]), FInt(5))} :
             \A hi \in {FMul(FInt(w[s]), FInt(5))} :
             \A raised \in {PyMax(v, lo)} :
                 cur_w[s] = PyMin(raised, hi)

\* C10: within a sweep prev_w stays fixed and every control's dot products
\* and weight updates read it; prev_w is replaced by cur_w only between
\* sweeps.  Hence at the end of a sweep a sample with several positive
\* controls carries the clamped update of the last of them only, a sample
\* with none keeps its weight, and the step of a control reads and writes
\* nothing that the step of another control writes (its alpha and z come
\* from prev_w and its own z, and it leaves the alpha and z of the other
\* controls alone), so alpha[k] and z[k] do not depend on the order of the
\* controls.
C10_PrevWeightsFixedWithinSweep ==
    [][ /\ (n_pc = "sweep" =>
              /\ prev_w' = prev_w
              /\ \A a \in {BalancingFactor(prev_w, z[marginal_ind],
                                            marginal_ind)} :
                    alpha'[marginal_ind] = a
              /\ \A j \in Controls \ {marginal_ind} :
                    alpha'[j] = alpha[j] /\ z'[j] = z[j])
        /\ (n_pc = "check" /\ n_pc' = "sweep" => prev_w' = cur_w)
        /\ (n_pc = "check" => EndOfSweep)
      ]_vars

\* a sweep is complete in which a sample positive for both controls carries
\* a weight other than the one the first control gave it
C10_EarlierUpdateOverwritten ==
    /\ n_pc = "check"
    /\ \E s \in Samples :
          /\ hh_table[s][1] > 0 /\ hh_table[s][2] > 0
          /\ IsFinite(cur_w[s])
          /\ cur_w[s] # Clamp(FMul(prev_w[s],
                                   FPowHalves(alpha[1], hh_table[s][1])), s)
          /\ cur_w[s] # prev_w[s]

(***************************************************************************)
(* discretize_multi_weights                                                *)
(*                                                                         *)
(* d_hh_table holds whole numbers, x holds rationals.  The model has two   *)
(* tracts, two samples and one control.                                    *)
(***************************************************************************)
DTracts ==
    1..Len(x)

DSamples ==
    1..Len(d_hh_table)

DControls ==
    1..Len(d_hh_table[1])

\* line 276: astype(int) cuts the fraction off, toward zero
Truncate(r) ==
    TruncDiv(r[1], r[2])

\* np.dot(M, hh_table)[t][k] for a matrix M of rationals
DotTable(M, t, k) ==
    RSumSeq([i \in DSamples |-> RMul(M[t][i], RInt(d_hh_table[i][k]))])

\* a variant of the comparison of line 313 that selects y = 0.5 too
BinarizeInclusive(v) ==
    IF RLe(Rat(1, 2), v) THEN 1 ELSE 0

\* line 313: (y.value > 0.5).astype(int), one entry
Binarize(v) ==
    IF RLt(Rat(1, 2), v) THEN 1 ELSE 0

UnchangedDiscInputs ==
    UNCHANGED <<d_hh_table, x, multiVars, newtonVars>>

\* lines 272-283
Integerize ==
    /\ d_pc = "start"
    /\ x_int' = [t \in DTracts |-> [i \in DSamples |-> Truncate(x[t][i])]]
    /\ A_residuals' =
          [t \in DTracts |-> [k \in DControls |->
              RSub(DotTable(x, t, k),
                   DotTable([u \in DTracts |-> [i \in DSamples |->
                                RInt(Truncate(x[u][i]))]], t, k))]]
    /\ x_residuals' =
          [t \in DTracts |-> [i \in DSamples |->
              RSub(x[t][i], RInt(Truncate(x[t][i])))]]
    /\ d_pc' = "solve"
    /\ UNCHANGED <<y_value, Y>>
    /\ UnchangedDiscInputs

\* the values the solver may leave in an entry of y
YValues ==
    {RInt(0), Rat(1, 4), Rat(1, 2), Rat(3, 4)}

\* lines 309-310: prob.solve returns; y.value is a matrix, or None when the
\* solver reports no solution
DiscSolveReturns ==
    /\ d_pc = "solve"
    /\ \E yv \in {Some(m) : m \in MatrixOf(Len(x), Len(d_hh_table), YValues)}
                    \cup {None} :
          y_value' = yv
    /\ d_pc' = "threshold"
    /\ UNCHANGED <<x_int, A_residuals, x_residuals, Y>>
    /\ UnchangedDiscInputs

\* line 310: prob.solve raises and the exception leaves the function
DiscSolveRaises ==
    /\ d_pc = "solve"
    /\ d_pc' = "raised"
    /\ UNCHANGED <<x_int, A_residuals, x_residuals, y_value, Y>>
    /\ UnchangedDiscInputs

\* line 313 with a solved y
Threshold ==
    /\ d_pc = "threshold"
    /\ y_value.has
    /\ Y' = Some([t \in DTracts |-> [i \in DSamples |->
                    Binarize(y_value.val[t][i])]])
    /\ d_pc' = "returned"
    /\ UNCHANGED <<x_int, A_residuals, x_residuals, y_value>>
    /\ UnchangedDiscInputs

\* line 313 with y.value = None: None > 0.5 raises TypeError under Python 3
\* and is False under Python 2, where the function returns the scalar 0
ThresholdOfNone ==
    /\ d_pc = "threshold"
    /\ ~y_value.has
    /\ \E python \in {2, 3} :
          IF python = 3
          THEN d_pc' = "raised" /\ Y' = Y
          ELSE d_pc' = "returned" /\ Y' = Some(0)
    /\ UNCHANGED <<x_int, A_residuals, x_residuals, y_value>>
    /\ UnchangedDiscInputs

\* the entries of hh_table
CountValues ==
    {0, 1, 2}

\* the entries of x: a negative one, an integral one and two with a fraction
XValues ==
    {Rat(-3, 2), RInt(1), Rat(1, 2), Rat(7, 4)}

InitDisc ==
    /\ d_hh_table \in MatrixOf(2, 1, CountValues)
    /\ x \in MatrixOf(2, 2, XValues)
    /\ x_int = <<>> /\ A_residuals = <<>> /\ x_residuals = <<>>
    /\ y_value = None /\ Y = None
    /\ d_pc = "start"
    /\ MultiIdle
    /\ NewtonIdle

NextDisc ==
    \/ Integerize
    \/ DiscSolveReturns
    \/ DiscSolveRaises
    \/ Threshold
    \/ ThresholdOfNone

SpecDisc ==
    InitDisc /\ [][NextDisc]_vars

(***************************************************************************)
(* Properties of discretize_multi_weights                                  *)
(***************************************************************************)
\* x is non-negative and has no exactly integral entry
NonIntegralWeights ==
    \A t \in DTracts : \A i \in DSamples :
        /\ RLe(RInt(0), x[t][i])
        /\ x[t][i][2] # 1

\* C8: for every non-negative x with no exactly integral entry, x_int is x
\* with the fraction cut off, x_residuals = x - x_int lies in [0, 1), the
\* residual marginals x.H - x_int.H are non-negative, and the matrix
\* returned for a solved y is binary with Y[t][i] = 1 exactly when
\* y[t][i] > 0.5.
C8_BinaryThreshold ==
    (d_pc \in {"solve", "threshold", "returned", "raised"}
     /\ NonIntegralWeights) =>
        /\ \A t \in DTracts : \A i \in DSamples :
              /\ RLe(RInt(x_int[t][i]), x[t][i])
              /\ RLt(x[t][i], RInt(x_int[t][i] + 1))
              /\ x_residuals[t][i] = RSub(x[t][i], RInt(x_int[t][i]))
              /\ RLe(RInt(0), x_residuals[t][i])
              /\ RLt(x_residuals[t][i], RInt(1))
        /\ \A t \in DTracts : \A k \in DControls :
              /\ A_residuals[t][k] =
                    RSumSeq([i \in DSamples |->
                        RMul(x_residuals[t][i], RInt(d_hh_table[i][k]))])
              /\ RLe(RInt(0), A_residuals[t][k])
        /\ (d_pc = "returned" /\ y_value.has =>
              /\ Y.has
              /\ Len(Y.val) = Len(x)
              /\ \A t \in DTracts :
                    /\ Len(Y.val[t]) = Len(d_hh_table)
                    /\ \A i \in DSamples :
                          /\ Y.val[t][i] \in {0, 1}
                          /\ Y.val[t][i] = 1 <=>
                                y_value.val[t][i][1] * 2 > y_value.val[t][i][2])

\* a call with valid weights returned a selection in which an entry solved
\* to exactly 0.5 is left out and an entry above 0.5 is taken, with a
\* positive residual marginal
C8_ReturnedSelection ==
    /\ d_pc = "returned"
    /\ NonIntegralWeights
    /\ y_value.has
    /\ \E t \in DTracts : \E i \in DSamples :
          y_value.val[t][i] = Rat(1, 2) /\ Y.val[t][i] = 0
    /\ \E t \in DTracts : \E i \in DSamples :
          y_value.val[t][i] = Rat(3, 4) /\ Y.val[t][i] = 1
    /\ \E t \in DTracts : \E k \in DControls :
          RLt(RInt(0), A_residuals[t][k])

====
